---- MODULE Spec2Model ----
(***************************************************************************)
(* Model of the 365skill security scanner.                                 *)
(*   scripts/scan_skills.py      SkillSecurityScanner, print_results       *)
(*   scripts/interactive_scan.py InteractiveScanner                        *)
(* Regular-expression matching is abstracted: a line of a file is the set  *)
(* of rule categories that match it once each.                             *)
(***************************************************************************)
EXTENDS Integers, Sequences, FiniteSets, TLC

\* ------------------------------------------------------------------ bounds
\* calls of scan_all_skills a client makes on one scanner object
MaxCalls == 2
\* external add/remove operations on the allow-list store during a run
MaxExternalOps == 1
\* findings per result in the report-classification specification
MaxFindings == 4

\* ------------------------------------------------------- enumerations
RESERVED == "365skill"

RiskLevels == {"critical", "high", "medium", "low", "info"}

ScanLevels == {"basic", "deep", "full"}

\* interactive_scan.py risk_priority
risk_priority(level) ==
    CASE level = "critical" -> 4
      [] level = "high" -> 3
      [] level = "medium" -> 2
      [] level = "low" -> 1
      [] OTHER -> 0

\* ------------------------------------------------------- rule catalog
\* Categories in the iteration order of the pattern dictionaries.
basic_patterns == <<"sensitive_api_keys", "dangerous_commands", "suspicious_network">>

deep_patterns ==
    basic_patterns \o <<"code_obfuscation", "suspicious_file_ops",
                        "data_exfiltration", "shell_injection">>

full_patterns ==
    deep_patterns \o <<"behavior_analysis", "environment_fingerprinting",
                       "persistence_hooks">>

Categories == {full_patterns[i] : i \in 1..Len(full_patterns)}

\* scan_file's selection of the catalog by scan level
PatternsFor(level) ==
    IF level = "basic" THEN basic_patterns
    ELSE IF level = "deep" THEN deep_patterns
    ELSE full_patterns

get_risk_level(category) ==
    IF category \in {"dangerous_commands", "shell_injection", "persistence_hooks"}
    THEN "critical"
    ELSE IF category \in {"sensitive_api_keys", "data_exfiltration", "code_obfuscation"}
    THEN "high"
    ELSE IF category \in {"suspicious_file_ops", "suspicious_network", "behavior_analysis"}
    THEN "medium"
    ELSE "low"

get_recommendation(category) ==
    CASE category = "sensitive_api_keys" ->
           "Use environment variables or config files for sensitive info"
      [] category = "dangerous_commands" ->
           "Remove dangerous commands or add strict validation"
      [] category = "suspicious_network" -> "Review network requests for legitimacy"
      [] category = "code_obfuscation" ->
           "Code obfuscation may hide malicious behavior, manual review needed"
      [] category = "suspicious_file_ops" ->
           "Review necessity and permissions of file operations"
      [] category = "data_exfiltration" ->
           "Possible data exfiltration detected, review network communications"
      [] category = "shell_injection" ->
           "Use parameterized commands instead of string concatenation"
      [] category = "behavior_analysis" -> "Review reasonableness of anomalous behavior"
      [] category = "environment_fingerprinting" ->
           "Confirm necessity of environment probing"
      [] category = "persistence_hooks" -> "Persistence mechanism detected, review needed"
      [] OTHER -> "Manual review recommended"

\* The rule lists of the pattern dictionaries, a rule as its description.
basic_rules ==
    "sensitive_api_keys" :>
        << "Possible API Key hardcoded", "Possible auth token hardcoded",
           "Possible password hardcoded", "Possible secret key hardcoded" >>
    @@ "dangerous_commands" :>
        << "Dangerous file deletion command", "Dynamic code execution with eval",
           "Dynamic code execution with exec", "Possible command injection",
           "Command execution with os.system" >>
    @@ "suspicious_network" :>
        << "Network request with possible sensitive data", "Localhost port connection" >>

\* the entries deep_patterns writes after `**self.basic_patterns`
deep_added ==
    "code_obfuscation" :>
        << "Possible code obfuscation (escape characters)",
           "Possible character encoding obfuscation", "Base64 decode operation",
           "Multi-layer obfuscated code execution" >>
    @@ "suspicious_file_ops" :>
        << "Accessing sensitive config directory", "Bulk file operations",
           "Email sending functionality", "Accessing user home directory" >>
    @@ "data_exfiltration" :>
        << "Possible data exfiltration request", "Raw socket connection",
           "Data possibly sent to external service" >>
    @@ "shell_injection" :>
        << "Possible shell variable injection", "Command execution with os.popen",
           "Command execution with commands.getoutput" >>

\* the entries full_patterns writes after `**self.deep_patterns`
full_added ==
    "behavior_analysis" :>
        << "Possible infinite loop or massive iteration",
           "Long sleep delay (possible delay attack)",
           "Multi-threading/process creation", "Multi-process creation" >>
    @@ "environment_fingerprinting" :>
        << "System fingerprinting", "Environment info gathering" >>
    @@ "persistence_hooks" :>
        << "Shell config file modification", "Cron job or service configuration" >>

\* DictMerge keeping only the entries written after the unpacking
DictMergeDropBase(base, added) == added

\* the dictionary display `{**base, key: value, ...}`: later keys win
DictMerge(base, added) ==
    [ k \in DOMAIN base \cup DOMAIN added |->
        IF k \in DOMAIN added THEN added[k] ELSE base[k] ]

deep_rules == DictMerge(basic_rules, deep_added)

full_rules == DictMerge(deep_rules, full_added)

\* the dictionary scan_file selects by scan level
RulesFor(level) ==
    IF level = "basic" THEN basic_rules
    ELSE IF level = "deep" THEN deep_rules
    ELSE full_rules

\* ------------------------------------------------------- file system
\* A file: its name and extension, whether open() succeeds, and its lines;
\* a line is the set of categories whose rules match it.
extensions == {".py", ".js", ".ts", ".sh", ".bash", ".md", ".json", ".yml", ".yaml", ".txt"}

File(name, ext, readable, lines) ==
    [name |-> name, ext |-> ext, readable |-> readable, lines |-> lines]

FClean == File("readme", ".md", TRUE, << {}, {} >>)
FLowMed == File("probe", ".py", TRUE,
                << {"environment_fingerprinting"}, {"suspicious_network"} >>)
FMedLow == File("fetch", ".js", TRUE,
                << {"suspicious_network"}, {}, {"environment_fingerprinting"} >>)
FHigh == File("config", ".json", TRUE, << {}, {"sensitive_api_keys"} >>)
FHighCrit == File("run", ".sh", TRUE,
                  << {"code_obfuscation"}, {"sensitive_api_keys", "dangerous_commands"} >>)
FLow == File("env", ".txt", TRUE, << {"environment_fingerprinting"} >>)
FUnreadable == File("locked", ".py", FALSE, << {"dangerous_commands"} >>)
FBinary == File("blob", ".bin", TRUE, << {"dangerous_commands"} >>)

\* Directory trees a skill may hold, as the file sequence rglob yields.
SkillContents ==
    { << >>,
      << FBinary >>,
      << FClean, FBinary >>,
      << FLowMed >>,
      << FMedLow, FClean >>,
      << FUnreadable, FHigh >>,
      << FHighCrit, FLow >> }

\* The scanner's own package holds its rule text, which matches its rules.
ReservedContent == << FHighCrit >>
HiddenContent == << FHigh >>

\* Skill directory names; iterdir() yields the existing ones in this order.
DirOrder == << "a", RESERVED, ".h", "b", "c" >>

Names == {DirOrder[i] : i \in 1..Len(DirOrder)}

\* ------------------------------------------------------------ state
VARIABLES
    rootExists,        \* the skills directory exists
    dirs,              \* names of the directories under the skills directory
    content,           \* directory name -> its files in rglob order
    store,             \* the allow-list file 365skill/assets/whitelist.json
    scan_level,        \* self.scan_level
    use_whitelist,     \* self.use_whitelist
    whitelist,         \* self.whitelist, the snapshot taken by __init__
    skipped_whitelist, \* self.skipped_whitelist
    results,           \* self.results
    scan_log,          \* per scan_skill call: the name, whether it was skipped as
                       \* allow-listed, and the store's names at that moment
    enumerated,        \* skills whose files scan_skill has enumerated (rglob)
    opened,            \* <<skill, file name>> pairs scan_file has opened
    mode,              \* "api": a client of the scanner; "interactive": run()
    pc,                \* position of the client or of run()
    target,            \* target_skill of the scan_all_skills call in progress
    queue,             \* skill_paths not yet scanned by the call in progress
    call_results,      \* the local list `results` of the call in progress
    ret,               \* return value of the last completed scan_all_skills
    calls,             \* scan_all_skills calls started so far
    full_calls,        \* those of them started without a target
    ext_ops,           \* external allow-list operations so far
    groups,            \* the four lists print_results builds
    risky_skills,      \* run(): (name, highest risk, count), sorted
    cur,               \* run(): index of the skill being processed
    skills_to_delete,  \* run(): names whose delete_skill returned True
    last_option,       \* run(): last choice read at the options prompt
    last_input,        \* run(): the last input() read, with its prompt
    rmtree_calls,      \* every shutil.rmtree invocation and its outcome
    final_report       \* the final report of run(), when printed

scanner_vars == << scan_level, use_whitelist, whitelist, skipped_whitelist,
                   results, scan_log, enumerated, opened >>
fs_vars == << rootExists, dirs, content, store >>
call_vars == << target, queue, call_results, ret, calls, full_calls >>
run_vars == << risky_skills, cur, skills_to_delete, last_option, last_input,
               rmtree_calls, final_report >>
vars == << fs_vars, scanner_vars, call_vars, run_vars, mode, pc, ext_ops, groups >>

\* ------------------------------------------------------- allow-list store
StoreMissing == [state |-> "missing", names |-> {}]
StoreMalformed == [state |-> "malformed", names |-> {}]
StoreOk(names) == [state |-> "ok", names |-> names]

\* _load_whitelist: empty when disabled, when the file is missing, and when
\* json.load raises
_load_whitelist(enabled, st) ==
    IF ~enabled THEN {}
    ELSE IF st.state = "missing" THEN {}
    ELSE IF st.state = "malformed" THEN {}
    ELSE st.names

\* ------------------------------------------------------------ scan_file
\* RiskFinding numbering the lines from 0 (enumerate without its start value)
RiskFindingZeroBased(skill_name, fname, line_num, category) ==
    [ skill_name |-> skill_name,
      file_path |-> << skill_name, fname >>,
      line_number |-> line_num - 1,
      risk_level |-> get_risk_level(category),
      category |-> category,
      recommendation |-> get_recommendation(category) ]

\* file_path is `file_path.relative_to(self.skills_dir)`: the components below
\* the skills directory, the skill's own directory first
RiskFinding(skill_name, fname, line_num, category) ==
    [ skill_name |-> skill_name,
      file_path |-> << skill_name, fname >>,
      line_number |-> line_num,
      risk_level |-> get_risk_level(category),
      category |-> category,
      recommendation |-> get_recommendation(category) ]

\* the findings of one line: one per matching category, in catalog order
RECURSIVE LineFindings(_, _, _, _, _, _)
LineFindings(patterns, i, line, skill_name, fname, line_num) ==
    IF i > Len(patterns) THEN << >>
    ELSE (IF patterns[i] \in line
          THEN << RiskFinding(skill_name, fname, line_num, patterns[i]) >>
          ELSE << >>)
         \o LineFindings(patterns, i + 1, line, skill_name, fname, line_num)

RECURSIVE FileFindings(_, _, _, _, _)
FileFindings(patterns, lines, line_num, skill_name, fname) ==
    IF line_num > Len(lines) THEN << >>
    ELSE LineFindings(patterns, 1, lines[line_num], skill_name, fname, line_num)
         \o FileFindings(patterns, lines, line_num + 1, skill_name, fname)

\* scan_file: a file that cannot be opened yields no findings
scan_file(file, skill_name, level) ==
    IF ~file.readable THEN << >>
    ELSE FileFindings(PatternsFor(level), file.lines, 1, skill_name,
                      file.name \o file.ext)

\* ------------------------------------------------------------ scan_skill
ScanResult(skill_name, is_safe, findings, total_files, scanned_files) ==
    [ skill_name |-> skill_name, is_safe |-> is_safe, findings |-> findings,
      total_files |-> total_files, scanned_files |-> scanned_files ]

\* IsWhitelisted without the allow-list check
IsWhitelistedOff(skill_name) == FALSE

\* IsWhitelisted reading the store again at every scan_skill call
IsWhitelistedReread(skill_name) == skill_name \in _load_whitelist(use_whitelist, store)

\* `skill_name in self.whitelist`: the snapshot, never the store
IsWhitelisted(skill_name) == skill_name \in whitelist

\* FullScanIsSafe when the final assignment to is_safe is missing
FullScanIsSafeAlways(findings) == TRUE

\* `result.is_safe = len(result.findings) == 0`
FullScanIsSafe(findings) == Len(findings) = 0

\* files_to_scan: the files with a recognized extension, in rglob order
FilesToScan(files) == SelectSeq(files, LAMBDA f : f.ext \in extensions)

\* ConcatFindings when a failed open() ends the skill's scan
RECURSIVE ConcatFindingsAbort(_, _, _, _)
ConcatFindingsAbort(files, i, skill_name, level) ==
    IF i > Len(files) THEN << >>
    ELSE IF ~files[i].readable THEN << >>
    ELSE scan_file(files[i], skill_name, level)
         \o ConcatFindingsAbort(files, i + 1, skill_name, level)

\* ConcatFindings putting each file's findings in front of the earlier ones
RECURSIVE ConcatFindingsPrepend(_, _, _, _)
ConcatFindingsPrepend(files, i, skill_name, level) ==
    IF i > Len(files) THEN << >>
    ELSE ConcatFindingsPrepend(files, i + 1, skill_name, level)
         \o scan_file(files[i], skill_name, level)

RECURSIVE ConcatFindings(_, _, _, _)
ConcatFindings(files, i, skill_name, level) ==
    IF i > Len(files) THEN << >>
    ELSE scan_file(files[i], skill_name, level)
         \o ConcatFindings(files, i + 1, skill_name, level)

\* scan_skill as a function of the skill's name and directory tree: the result
\* it returns, what it appends to skipped_whitelist, whether it enumerated the
\* tree, and which files it opened.
scan_skill(skill_name, files) ==
    IF skill_name = RESERVED
    THEN [ result |-> ScanResult(skill_name, TRUE, << >>, 0, 0),
           skipped |-> << >>, enumerated |-> {}, opened |-> {} ]
    ELSE IF IsWhitelisted(skill_name)
    THEN [ result |-> ScanResult(skill_name, TRUE, << >>, 0, 0),
           skipped |-> << skill_name >>, enumerated |-> {}, opened |-> {} ]
    ELSE LET files_to_scan == FilesToScan(files)
             findings == ConcatFindings(files_to_scan, 1, skill_name, scan_level)
             hit == { i \in 1..Len(files_to_scan) :
                        Len(scan_file(files_to_scan[i], skill_name, scan_level)) > 0 }
         IN [ result |-> ScanResult(skill_name, FullScanIsSafe(findings), findings,
                                    Len(files_to_scan), Cardinality(hit)),
              skipped |-> << >>,
              enumerated |-> { skill_name },
              opened |-> { << skill_name, files_to_scan[i].name \o files_to_scan[i].ext >> :
                             i \in 1..Len(files_to_scan) } ]

\* ------------------------------------------------------- scan_all_skills
\* target_skill None (or empty, which Python treats alike)
NoTarget == ""

Targets == { NoTarget, "a", "b" }

\* `[d for d in self.skills_dir.iterdir() if d.is_dir() and not d.name.startswith('.')]`
IsHidden(name) == name \in { ".h" }

SkillPaths == SelectSeq(DirOrder, LAMBDA d : d \in dirs /\ ~IsHidden(d))

\* `skill_paths[0].exists()`
TargetExists(t) == rootExists /\ t \in dirs

\* BeginScanAll without the `exists()` check on the target
BeginScanAllNoCheck(t) ==
    /\ calls' = calls + 1
    /\ full_calls' = full_calls + (IF t = NoTarget THEN 1 ELSE 0)
    /\ target' = t
    /\ call_results' = << >>
    /\ UNCHANGED ret
    /\ IF t # NoTarget
       THEN queue' = << t >> /\ pc' = "scanning"
       ELSE IF ~rootExists
            THEN queue' = << >> /\ pc' = "raised"
            ELSE queue' = SkillPaths /\ pc' = "scanning"

\* Entry of scan_all_skills up to the loop: the target-not-found return, the
\* uncaught FileNotFoundError of iterdir() on a missing root, or the loop's start.
BeginScanAll(t) ==
    /\ calls' = calls + 1
    /\ full_calls' = full_calls + (IF t = NoTarget THEN 1 ELSE 0)
    /\ target' = t
    /\ call_results' = << >>
    /\ IF t # NoTarget
       THEN IF ~TargetExists(t)
            THEN /\ queue' = << >>
                 /\ ret' = << >>
                 /\ pc' = IF mode = "api" THEN "idle" ELSE "classify"
            ELSE /\ queue' = << t >>
                 /\ pc' = "scanning"
                 /\ UNCHANGED ret
       ELSE IF ~rootExists
            THEN /\ queue' = << >>
                 /\ pc' = "raised"
                 /\ UNCHANGED ret
            ELSE /\ queue' = SkillPaths
                 /\ pc' = "scanning"
                 /\ UNCHANGED ret

\* Accumulate keeping one result per skill, the latest
AccumulateLatest(acc, result) ==
    SelectSeq(acc, LAMBDA r : r.skill_name # result.skill_name) \o << result >>

\* `self.results.extend([result])`: the list made by __init__ only grows
Accumulate(acc, result) == acc \o << result >>

\* a client calls scanner.scan_all_skills(target_skill)
ScanAllCall ==
    /\ mode = "api"
    /\ pc = "idle"
    /\ calls < MaxCalls
    /\ \E t \in Targets : BeginScanAll(t)
    /\ UNCHANGED << fs_vars, scanner_vars, run_vars, mode, ext_ops, groups >>

\* one iteration of `for skill_path in skill_paths`
ScanSkillStep ==
    /\ pc = "scanning"
    /\ Len(queue) > 0
    /\ LET name == Head(queue)
           r == scan_skill(name, IF name \in dirs THEN content[name] ELSE << >>)
       IN /\ call_results' = Append(call_results, r.result)
          /\ results' = Accumulate(results, r.result)
          /\ skipped_whitelist' = skipped_whitelist \o r.skipped
          /\ enumerated' = enumerated \cup r.enumerated
          /\ opened' = opened \cup r.opened
          /\ scan_log' = Append(scan_log, [ name |-> name,
                                            skipped |-> Len(r.skipped) > 0,
                                            listed |-> store.names ])
    /\ queue' = Tail(queue)
    /\ UNCHANGED << fs_vars, scan_level, use_whitelist, whitelist,
                    target, ret, calls, full_calls, run_vars, mode, pc, ext_ops,
                    groups >>

\* `return results` after the loop
ScanAllReturn ==
    /\ pc = "scanning"
    /\ Len(queue) = 0
    /\ ret' = call_results
    /\ pc' = IF mode = "api" THEN "idle" ELSE "classify"
    /\ UNCHANGED << fs_vars, scanner_vars, target, queue, call_results, calls,
                    full_calls,
                    run_vars, mode, ext_ops, groups >>

\* ------------------------------------------------------------ print_results
\* HighestRiskStep with the last branch taken for every low finding
HighestRiskStepLowWins(level, highest_risk) ==
    IF level = "high" /\ highest_risk \in {"info", "low", "medium"} THEN "high"
    ELSE IF level = "medium" /\ highest_risk \in {"info", "low"} THEN "medium"
    ELSE IF level = "low" THEN "low"
    ELSE highest_risk

\* One pass of the body of `for finding in result.findings`: the new value of
\* highest_risk (the critical branch, which breaks, is in HighestRisk).
HighestRiskStep(level, highest_risk) ==
    IF level = "high" /\ highest_risk \in {"info", "low", "medium"} THEN "high"
    ELSE IF level = "medium" /\ highest_risk \in {"info", "low"} THEN "medium"
    ELSE IF highest_risk = "info" THEN "low"
    ELSE highest_risk

RECURSIVE HighestRisk(_, _, _)
HighestRisk(findings, i, highest_risk) ==
    IF i > Len(findings) THEN highest_risk
    ELSE IF findings[i].risk_level = "critical" THEN "critical"
    ELSE HighestRisk(findings, i + 1,
                     HighestRiskStep(findings[i].risk_level, highest_risk))

\* the list a result is appended to
GroupOf(result) ==
    LET highest_risk == HighestRisk(result.findings, 1, "info")
    IN IF highest_risk = "critical" THEN "critical"
       ELSE IF highest_risk = "high" THEN "high"
       ELSE IF highest_risk = "medium" THEN "medium"
       ELSE "low"

\* the (skill_name, result) pairs of one list, in the order of self.results
GroupList(rs, g) ==
    LET idx == SelectSeq([i \in 1..Len(rs) |-> i],
                         LAMBDA i : ~rs[i].is_safe /\ GroupOf(rs[i]) = g)
    IN [k \in 1..Len(idx) |-> << rs[idx[k]].skill_name, rs[idx[k]] >>]

RECURSIVE SumFindings(_, _)
SumFindings(rs, i) ==
    IF i > Len(rs) THEN 0
    ELSE (IF rs[i].is_safe THEN 0 ELSE Len(rs[i].findings)) + SumFindings(rs, i + 1)

NotPrinted ==
    [ printed |-> FALSE, critical |-> << >>, high |-> << >>, medium |-> << >>,
      low |-> << >>, skipped |-> << >>, total_skills |-> 0, safe |-> 0,
      risky |-> 0, total_risks |-> 0 ]

\* print_results: returns early on an empty result list
PrintResults ==
    /\ mode = "api"
    /\ pc = "idle"
    /\ groups' =
         IF Len(results) = 0 THEN NotPrinted
         ELSE [ printed |-> TRUE,
                critical |-> GroupList(results, "critical"),
                high |-> GroupList(results, "high"),
                medium |-> GroupList(results, "medium"),
                low |-> GroupList(results, "low"),
                skipped |-> skipped_whitelist,
                total_skills |-> Len(results),
                safe |-> Cardinality({i \in 1..Len(results) : results[i].is_safe}),
                risky |-> Cardinality({i \in 1..Len(results) : ~results[i].is_safe}),
                total_risks |-> SumFindings(results, 1) ]
    /\ pc' = "printed"
    /\ UNCHANGED << fs_vars, scanner_vars, call_vars, run_vars, mode, ext_ops >>

\* --------------------------------------------- external allow-list commands
\* what `--whitelist-add` creates when the package directory is missing
FWhitelist == File("whitelist", ".json", TRUE, << {} >>)

\* main(), --whitelist-add NAME, run by another process: creates the directories,
\* then fails on a malformed file, returns if NAME is listed, else rewrites it
WhitelistAdd(name) ==
    /\ rootExists' = TRUE
    /\ dirs' = dirs \cup { RESERVED }
    /\ content' = IF RESERVED \in dirs THEN content
                  ELSE [content EXCEPT ![RESERVED] = << FWhitelist >>]
    /\ store' = IF store.state = "missing" THEN StoreOk({ name })
                ELSE IF store.state = "malformed" THEN store
                ELSE StoreOk(store.names \cup { name })

\* main(), --whitelist-remove NAME: nothing without a file, fails on a malformed
\* file, rewrites the file only if NAME was listed
WhitelistRemove(name) ==
    /\ store' = IF store.state = "ok" THEN StoreOk(store.names \ { name })
                ELSE store
    /\ UNCHANGED << rootExists, dirs, content >>

\* the names the external commands are run with
ExternalNames == { "a" }

ExternalAdd ==
    /\ ext_ops < MaxExternalOps
    /\ pc \in { "idle", "scanning" }
    /\ \E name \in ExternalNames : WhitelistAdd(name)
    /\ ext_ops' = ext_ops + 1
    /\ UNCHANGED << scanner_vars, call_vars, run_vars, mode, pc, groups >>

ExternalRemove ==
    /\ ext_ops < MaxExternalOps
    /\ pc \in { "idle", "scanning" }
    /\ \E name \in ExternalNames : WhitelistRemove(name)
    /\ ext_ops' = ext_ops + 1
    /\ UNCHANGED << scanner_vars, call_vars, run_vars, mode, pc, groups >>

\* ------------------------------------------------- interactive_scan.py
\* no input read yet; no option chosen yet for the skill being processed
NoInput == [prompt |-> "none", skill |-> "", text |-> << >>]

NoOption == [skill |-> "", choice |-> ""]

\* input(): a line typed by the user, as its characters
RawInputs ==
    { << "v" >>, << "d" >>, << "s" >>, << "q" >>, << "y" >>, << "n" >>, << "x" >>,
      << >>, << " ", "D" >>, << "Y", " " >>, << "y", "e", "s" >>, << " ", "Q", " " >> }

IsSpace(c) == c = " "

\* str.strip()
RECURSIVE LStrip(_)
LStrip(t) == IF Len(t) > 0 /\ IsSpace(Head(t)) THEN LStrip(Tail(t)) ELSE t

RECURSIVE RStrip(_)
RStrip(t) ==
    IF Len(t) > 0 /\ IsSpace(t[Len(t)]) THEN RStrip(SubSeq(t, 1, Len(t) - 1)) ELSE t

Strip(t) == RStrip(LStrip(t))

\* str.lower() on the letters the inputs use
LowerChar(c) ==
    CASE c = "D" -> "d"
      [] c = "Y" -> "y"
      [] c = "Q" -> "q"
      [] OTHER -> c

Lower(t) == [i \in 1..Len(t) |-> LowerChar(t[i])]

\* `input(...).strip().lower()`
ReadChoice(raw) == Lower(Strip(raw))

\* run(): the highest risk level among a result's findings
RECURSIVE RunHighestRisk(_, _, _)
RunHighestRisk(findings, i, highest_risk) ==
    IF i > Len(findings) THEN highest_risk
    ELSE RunHighestRisk(findings, i + 1,
                        IF risk_priority(findings[i].risk_level) > risk_priority(highest_risk)
                        THEN findings[i].risk_level
                        ELSE highest_risk)

\* RiskyOf without the `not result.is_safe` test
RECURSIVE RiskyOfAll(_, _)
RiskyOfAll(rs, i) ==
    IF i > Len(rs) THEN << >>
    ELSE (IF rs[i].skill_name # RESERVED
          THEN << [ name |-> rs[i].skill_name,
                    level |-> RunHighestRisk(rs[i].findings, 1, "info"),
                    count |-> Len(rs[i].findings) ] >>
          ELSE << >>)
         \o RiskyOfAll(rs, i + 1)

\* the unsorted risky_skills list
RECURSIVE RiskyOf(_, _)
RiskyOf(rs, i) ==
    IF i > Len(rs) THEN << >>
    ELSE (IF ~rs[i].is_safe /\ rs[i].skill_name # RESERVED
          THEN << [ name |-> rs[i].skill_name,
                    level |-> RunHighestRisk(rs[i].findings, 1, "info"),
                    count |-> Len(rs[i].findings) ] >>
          ELSE << >>)
         \o RiskyOf(rs, i + 1)

\* InsertPos of a sort that reverses equal keys (sort ascending, then reverse())
InsertPosReversing(sorted, x) ==
    Cardinality({ j \in 1..Len(sorted) :
                    risk_priority(sorted[j].level) > risk_priority(x.level) })

\* where list.sort(key=..., reverse=True) puts x among the already sorted
\* elements that preceded it: after every element whose key is not smaller
InsertPos(sorted, x) ==
    Cardinality({ j \in 1..Len(sorted) :
                    risk_priority(sorted[j].level) >= risk_priority(x.level) })

\* list.sort is stable, also with reverse=True
RECURSIVE SortByRisk(_)
SortByRisk(list) ==
    IF Len(list) = 0 THEN << >>
    ELSE LET sorted == SortByRisk(SubSeq(list, 1, Len(list) - 1))
             x == list[Len(list)]
             k == InsertPos(sorted, x)
         IN SubSeq(sorted, 1, k) \o << x >> \o SubSeq(sorted, k + 1, Len(sorted))

\* run() calls self.scanner.scan_all_skills()
RunScan ==
    /\ mode = "interactive"
    /\ pc = "run"
    /\ BeginScanAll(NoTarget)
    /\ UNCHANGED << fs_vars, scanner_vars, run_vars, mode, ext_ops, groups >>

\* "Classify results" and "Sort by risk level"; returns when nothing is risky
RunClassify ==
    /\ mode = "interactive"
    /\ pc = "classify"
    /\ risky_skills' = SortByRisk(RiskyOf(results, 1))
    /\ IF Len(risky_skills') = 0
       THEN pc' = "all_safe" /\ cur' = 0
       ELSE pc' = "options" /\ cur' = 1
    /\ UNCHANGED << fs_vars, scanner_vars, call_vars, skills_to_delete, last_option,
                    last_input, rmtree_calls, final_report, mode, ext_ops, groups >>

\* the final report after the `for` loop
FinalReport(deleted) ==
    [ printed |-> TRUE, deleted |-> deleted,
      kept |-> Len(risky_skills) - Len(deleted) ]

\* `break` out of the options loop: the next risky skill, or the final report
NextSkill(deleted) ==
    /\ last_option' = NoOption
    /\ IF cur < Len(risky_skills)
       THEN /\ cur' = cur + 1
            /\ pc' = "options"
            /\ UNCHANGED final_report
       ELSE /\ cur' = cur
            /\ pc' = "finished"
            /\ final_report' = FinalReport(deleted)

\* one input at "Choose (v/d/s/q): "
OptionsPrompt ==
    /\ mode = "interactive"
    /\ pc = "options"
    /\ \E raw \in RawInputs :
         LET choice == ReadChoice(raw)
             name == risky_skills[cur].name
         IN /\ last_input' = [prompt |-> "options", skill |-> name, text |-> choice]
            /\ IF choice = << "v" >>
               THEN /\ last_option' = [skill |-> name, choice |-> "v"]
                    /\ UNCHANGED << pc, cur, final_report >>
               ELSE IF choice = << "d" >>
               THEN /\ last_option' = [skill |-> name, choice |-> "d"]
                    /\ pc' = "confirm"
                    /\ UNCHANGED << cur, final_report >>
               ELSE IF choice = << "s" >>
               THEN NextSkill(skills_to_delete)
               ELSE IF choice = << "q" >>
               THEN /\ last_option' = [skill |-> name, choice |-> "q"]
                    /\ pc' = "quit"
                    /\ UNCHANGED << cur, final_report >>
               ELSE /\ last_option' = [skill |-> name, choice |-> "invalid"]
                    /\ UNCHANGED << pc, cur, final_report >>
    /\ UNCHANGED << fs_vars, scanner_vars, call_vars, risky_skills, skills_to_delete,
                    rmtree_calls, mode, ext_ops, groups >>

\* DeletedAfter ignoring delete_skill's return value
DeletedAfterAlways(deleted, name, ok) == Append(deleted, name)

\* `if self.delete_skill(name): skills_to_delete.append(name)`
DeletedAfter(deleted, name, ok) == IF ok THEN Append(deleted, name) ELSE deleted

\* Confirms treating every answer but n as a yes
ConfirmsUnlessNo(choice) == choice # << "n" >>

\* confirm_deletion's answer that lets run() call delete_skill
Confirms(choice) == choice = << "y" >>

\* one input at "Delete this skill? (y/n/v): "; on y, delete_skill runs, and
\* shutil.rmtree either removes the directory or raises, which is caught
ConfirmPrompt ==
    /\ mode = "interactive"
    /\ pc = "confirm"
    /\ \E raw \in RawInputs :
         LET choice == ReadChoice(raw)
             name == risky_skills[cur].name
         IN /\ last_input' = [prompt |-> "confirm", skill |-> name, text |-> choice]
            /\ IF Confirms(choice)
               THEN \E ok \in (IF name \in dirs THEN BOOLEAN ELSE { FALSE }) :
                      /\ rmtree_calls' = Append(rmtree_calls, [name |-> name, ok |-> ok])
                      /\ dirs' = IF ok THEN dirs \ { name } ELSE dirs
                      /\ skills_to_delete' = DeletedAfter(skills_to_delete, name, ok)
                      /\ NextSkill(skills_to_delete')
               ELSE IF choice = << "n" >>
               THEN /\ NextSkill(skills_to_delete)
                    /\ UNCHANGED << rmtree_calls, dirs, skills_to_delete >>
               ELSE UNCHANGED << pc, cur, final_report, last_option, rmtree_calls,
                                 dirs, skills_to_delete >>
    /\ UNCHANGED << rootExists, content, store, scanner_vars, call_vars,
                    risky_skills, mode, ext_ops, groups >>

\* ------------------------------------------------------- initial states
\* The state right after SkillSecurityScanner.__init__, which is the one place
\* that reads the store.
ScannerInit ==
    /\ scan_level \in ScanLevels
    /\ use_whitelist \in BOOLEAN
    /\ whitelist = _load_whitelist(use_whitelist, store)
    /\ scan_log = << >>
    /\ skipped_whitelist = << >>
    /\ results = << >>
    /\ enumerated = {}
    /\ opened = {}

IdleInit ==
    /\ target = NoTarget
    /\ queue = << >>
    /\ call_results = << >>
    /\ ret = << >>
    /\ calls = 0
    /\ full_calls = 0
    /\ ext_ops = 0
    /\ groups = NotPrinted
    /\ risky_skills = << >>
    /\ cur = 0
    /\ skills_to_delete = << >>
    /\ last_option = NoOption
    /\ last_input = NoInput
    /\ rmtree_calls = << >>
    /\ final_report = [printed |-> FALSE, deleted |-> << >>, kept |-> 0]

DirChoices == { { "a", RESERVED, ".h", "b" }, { "a", "b" }, { "a", ".h" } }

StoreChoices ==
    { StoreMissing, StoreMalformed, StoreOk({}), StoreOk({ "a" }),
      StoreOk({ "a", RESERVED, "zz" }) }

\* directory trees: free for "a", fixed for the others
ContentFor(ds, ca, cb) ==
    [ n \in Names |->
        IF n \notin ds THEN << >>
        ELSE IF n = "a" THEN ca
        ELSE IF n = "b" THEN cb
        ELSE IF n = RESERVED THEN ReservedContent
        ELSE HiddenContent ]

FsInit ==
    /\ rootExists \in BOOLEAN
    /\ dirs \in (IF rootExists THEN DirChoices ELSE { {} })
    /\ \E ca \in (IF "a" \in dirs THEN SkillContents ELSE { << >> }),
          cb \in (IF "b" \in dirs THEN { << FMedLow, FHigh >> } ELSE { << >> }) :
         content = ContentFor(dirs, ca, cb)
    /\ store \in (IF RESERVED \in dirs THEN StoreChoices ELSE { StoreMissing })

Init ==
    /\ FsInit
    /\ ScannerInit
    /\ IdleInit
    /\ mode = "api"
    /\ pc = "idle"

Next ==
    \/ ScanAllCall
    \/ ScanSkillStep
    \/ ScanAllReturn
    \/ PrintResults
    \/ ExternalAdd
    \/ ExternalRemove

Spec == Init /\ [][Next]_vars

\* ------------------------------------------- the interactive workflow
\* InteractiveScanner.__init__ builds the scanner with the allow-list enabled;
\* run() is called once.
InteractiveInit ==
    /\ rootExists \in BOOLEAN
    /\ dirs = (IF rootExists THEN { "a", "b", "c", RESERVED } ELSE {})
    /\ \E ca \in SkillContents,
          cb \in { << FClean, FBinary >>, << FLowMed >>, << FMedLow, FClean >>,
                   << FHighCrit, FLow >> },
          cc \in { << FLowMed >>, << FUnreadable, FHigh >>, << FHighCrit, FLow >> } :
         content = [ n \in Names |->
                       IF n \notin dirs THEN << >>
                       ELSE IF n = "a" THEN ca
                       ELSE IF n = "b" THEN cb
                       ELSE IF n = "c" THEN cc
                       ELSE ReservedContent ]
    /\ store \in (IF rootExists THEN { StoreMissing, StoreOk({ "b" }) }
                  ELSE { StoreMissing })
    /\ ScannerInit
    /\ use_whitelist = TRUE
    /\ IdleInit
    /\ mode = "interactive"
    /\ pc = "run"

InteractiveNext ==
    \/ RunScan
    \/ ScanSkillStep
    \/ ScanAllReturn
    \/ RunClassify
    \/ OptionsPrompt
    \/ ConfirmPrompt

SpecInteractive == InteractiveInit /\ [][InteractiveNext]_vars

\* -------------------------------------------- report classification inputs
\* One category per level, so that a file's lines give any sequence of levels.
LevelCategories ==
    { "dangerous_commands", "sensitive_api_keys", "suspicious_network",
      "environment_fingerprinting" }

LineSeqs == UNION { [1..k -> { { c } : c \in LevelCategories }] : k \in 0..MaxFindings }

\* A scanner at full depth over a root holding the one skill "a" with one file.
PrintInit ==
    /\ rootExists = TRUE
    /\ dirs = { "a" }
    /\ \E lines \in LineSeqs :
         content = [ n \in Names |->
                       IF n = "a" THEN << File("scan", ".py", TRUE, lines) >>
                       ELSE << >> ]
    /\ store = StoreMissing
    /\ ScannerInit
    /\ scan_level = "full"
    /\ use_whitelist = FALSE
    /\ IdleInit
    /\ mode = "api"
    /\ pc = "idle"

PrintNext ==
    \/ ScanAllCall
    \/ ScanSkillStep
    \/ ScanAllReturn
    \/ PrintResults

SpecPrint == PrintInit /\ [][PrintNext]_vars

\* ------------------------------------------------------------ properties
ReportGroups == { "critical", "high", "medium", "low" }

\* the most severe level among a non-empty sequence of findings
MaxSeverity(findings) ==
    CHOOSE l \in { findings[i].risk_level : i \in 1..Len(findings) } :
        \A j \in 1..Len(findings) :
            risk_priority(l) >= risk_priority(findings[j].risk_level)

InGroup(g, result) ==
    \E k \in 1..Len(groups[g]) : groups[g][k] = << result.skill_name, result >>

LevelsOf(findings) == [i \in 1..Len(findings) |-> findings[i].risk_level]

\* C1: once print_results has classified, every result with at least one
\* finding is in the group of the maximum severity among its findings and in
\* no other group, whatever the order of the findings.
C1_GroupIsMaxSeverity ==
    groups.printed =>
        \A i \in 1..Len(results) :
            Len(results[i].findings) > 0 =>
                \A g \in ReportGroups :
                    InGroup(g, results[i]) <=> g = MaxSeverity(results[i].findings)

\* C1 witness: a result whose findings are MEDIUM then LOW has been classified
\* and sits in the medium group.
C1_Witness ==
    /\ groups.printed
    /\ \E i \in 1..Len(results) :
         /\ LevelsOf(results[i].findings) = << "medium", "low" >>
         /\ InGroup("medium", results[i])

SkippedNames == { skipped_whitelist[i] : i \in 1..Len(skipped_whitelist) }

OpenedOf(skill_name) == { o \in opened : o[1] = skill_name }

SafeIffNoFindings(rs) ==
    \A i \in 1..Len(rs) : rs[i].is_safe <=> (Len(rs[i].findings) = 0)

\* C2: every ScanResult scan_skill has returned (those of the call in progress,
\* those of the last return value and those accumulated in scanner.results,
\* after any number of scan_all_skills calls) has is_safe true exactly when it
\* has no findings.
C2_SafeIffNoFindings ==
    /\ SafeIffNoFindings(results)
    /\ SafeIffNoFindings(call_results)
    /\ SafeIffNoFindings(ret)

\* C2 witness: the accumulated results hold one result of each return path of
\* scan_skill: the reserved name, an allow-listed skill, and a fully scanned
\* skill with findings.
C2_Witness ==
    /\ \E i \in 1..Len(results) : results[i].skill_name = RESERVED
    /\ \E i \in 1..Len(results) : results[i].skill_name \in SkippedNames
    /\ \E i \in 1..Len(results) :
         /\ results[i].skill_name \in enumerated
         /\ Len(results[i].findings) > 0
         /\ ~results[i].is_safe

\* a result of a skill the allow-list check let through: the tree was
\* enumerated, every candidate file was opened and counted
ScannedNormally(r) ==
    /\ r.skill_name \in enumerated
    /\ r.total_files = Len(FilesToScan(content[r.skill_name]))
    /\ Cardinality(OpenedOf(r.skill_name)) = r.total_files
    /\ r.skill_name \notin SkippedNames

\* a result of a skill that was not looked at
NotLookedAt(r) ==
    /\ r.is_safe
    /\ Len(r.findings) = 0
    /\ r.skill_name \notin enumerated
    /\ OpenedOf(r.skill_name) = {}

\* C3 as claimed: with the allow-list enabled, every skill named in the
\* snapshot yields a safe result without findings, is neither enumerated nor
\* read, and is recorded in the skipped list; with the allow-list disabled
\* every skill but the reserved one is scanned normally.
C3_AsClaimed ==
    \A i \in 1..Len(results) :
        LET r == results[i] IN
        /\ (use_whitelist /\ r.skill_name \in whitelist) =>
               (NotLookedAt(r) /\ r.skill_name \in SkippedNames)
        /\ (~use_whitelist /\ r.skill_name # RESERVED) => ScannedNormally(r)

\* C3 amended: as claimed, except that the reserved name 365skill, when it is in
\* the snapshot, is returned by the self-exclusion check before the allow-list
\* check and is not recorded in the skipped list.
C3_AllowListSkip ==
    \A i \in 1..Len(results) :
        LET r == results[i] IN
        /\ (use_whitelist /\ r.skill_name \in whitelist) =>
               /\ NotLookedAt(r)
               /\ (r.skill_name \in SkippedNames) <=> (r.skill_name # RESERVED)
        /\ (~use_whitelist /\ r.skill_name # RESERVED) => ScannedNormally(r)

\* C3 witness: a skill whose files match rules at every depth is in the
\* snapshot, has been through scan_skill and was skipped.
C3_Witness ==
    /\ use_whitelist
    /\ "a" \in whitelist
    /\ content["a"] = << FHighCrit, FLow >>
    /\ \E i \in 1..Len(results) :
         results[i].skill_name = "a" /\ results[i].is_safe
    /\ "a" \in SkippedNames

\* C8: the snapshot taken at construction never changes, and every scan_skill
\* call decides skip-or-scan by that snapshot alone, whatever names the store
\* holds at the moment of the call.
C8_SnapshotNotReread ==
    /\ [][whitelist' = whitelist]_vars
    /\ [](\A k \in 1..Len(scan_log) :
            scan_log[k].skipped <=>
                (scan_log[k].name \in whitelist /\ scan_log[k].name # RESERVED))

\* C8 witness: an external add went unobserved: with the allow-list enabled,
\* "a" was scanned in full at a moment when the store listed it, because the
\* snapshot taken at construction does not.
C8_Witness ==
    /\ ext_ops > 0
    /\ use_whitelist
    /\ "a" \notin whitelist
    /\ \E k \in 1..Len(scan_log) :
         /\ scan_log[k].name = "a"
         /\ ~scan_log[k].skipped
         /\ "a" \in scan_log[k].listed
    /\ "a" \in enumerated

\* the converse case: "a" was skipped at a moment when the store, after an
\* external remove, no longer listed it
C8_RemoveUnobserved ==
    \E k \in 1..Len(scan_log) :
        scan_log[k].name = "a" /\ scan_log[k].skipped /\ "a" \notin scan_log[k].listed

\* C9: a scan_all_skills call with a target whose directory does not exist
\* returns at once with an empty sequence, raises nothing, and leaves
\* scanner.results, the skipped list and the file system untouched by reads;
\* a call with an existing target returns exactly one result, that of the
\* target, which is also the one result the call added to scanner.results.
C9_TargetOnly ==
    [][ /\ (calls' = calls + 1 /\ target' # NoTarget /\ ~TargetExists(target')) =>
            /\ pc' = pc
            /\ ret' = << >>
            /\ results' = results
            /\ skipped_whitelist' = skipped_whitelist
            /\ enumerated' = enumerated
            /\ opened' = opened
        /\ (pc = "scanning" /\ pc' # "scanning" /\ target # NoTarget) =>
            /\ Len(ret') = 1
            /\ ret'[1].skill_name = target
            /\ Len(results') > 0
            /\ results'[Len(results')] = ret'[1]
        /\ (calls' = calls + 1 /\ target' # NoTarget /\ TargetExists(target')) =>
            queue' = << target' >>
      ]_vars

\* C9 witness: after a first call gathered results, a second call named a
\* missing directory and has returned empty, the results still in place.
C9_Witness ==
    /\ pc = "idle"
    /\ calls = 2
    /\ target = "b"
    /\ "b" \notin dirs
    /\ ret = << >>
    /\ Len(results) > 0

\* C10 as claimed: a scan_all_skills call without target on a missing root
\* returns normally; no failure leaves scan_all_skills.
C10_RootMissingContained == pc # "raised"

\* the name of the skill run() is processing
CurName == risky_skills[cur].name

\* C4: shutil.rmtree is invoked, and a directory disappears, only in a step
\* that reads y at the confirmation prompt of the skill being processed, that
\* prompt having been reached by the choice d for the same skill; the
\* directory removed is that skill's and no other.
C4_DeleteOnlyAfterDThenY ==
    [][ (rmtree_calls' # rmtree_calls \/ dirs' # dirs) =>
            /\ pc = "confirm"
            /\ last_option = [skill |-> CurName, choice |-> "d"]
            /\ last_input' = [prompt |-> "confirm", skill |-> CurName, text |-> << "y" >>]
            /\ \E ok \in BOOLEAN :
                 /\ rmtree_calls' = Append(rmtree_calls, [name |-> CurName, ok |-> ok])
                 /\ dirs' = IF ok THEN dirs \ { CurName } ELSE dirs
      ]_vars

\* C4 witness: a skill has been deleted, the last input read being the y at
\* its confirmation prompt.
C4_Witness ==
    /\ Len(rmtree_calls) > 0
    /\ rmtree_calls[Len(rmtree_calls)].ok
    /\ rmtree_calls[Len(rmtree_calls)].name \notin dirs
    /\ last_input = [prompt |-> "confirm",
                     skill |-> rmtree_calls[Len(rmtree_calls)].name,
                     text |-> << "y" >>]

\* C5 as claimed: when the user quits after deletions, the final report is
\* printed and lists exactly the skills deleted before the quit.
C5_QuitReportsDeletions ==
    (pc = "quit" /\ Len(skills_to_delete) > 0) =>
        (final_report.printed /\ final_report.deleted = skills_to_delete)

\* the names of the rmtree invocations that succeeded, in order
RECURSIVE Succeeded(_, _)
Succeeded(rm, i) ==
    IF i > Len(rm) THEN << >>
    ELSE (IF rm[i].ok THEN << rm[i].name >> ELSE << >>) \o Succeeded(rm, i + 1)

\* C6: the deleted list is at every moment exactly the skills whose rmtree
\* succeeded; a failed rmtree leaves the list as it was and moves on to the next
\* risky skill (or, after the last one, to the final report), never out of the
\* loop; the final report lists the succeeded deletions and counts as kept the
\* risky skills minus those.
C6_DeleteFailureContained ==
    /\ [](skills_to_delete = Succeeded(rmtree_calls, 1))
    /\ [](pc = "finished" =>
            final_report = [ printed |-> TRUE,
                             deleted |-> Succeeded(rmtree_calls, 1),
                             kept |-> Len(risky_skills)
                                      - Len(Succeeded(rmtree_calls, 1)) ])
    /\ [][ (Len(rmtree_calls') = Len(rmtree_calls) + 1
            /\ ~rmtree_calls'[Len(rmtree_calls')].ok) =>
               /\ skills_to_delete' = skills_to_delete
               /\ IF cur < Len(risky_skills)
                  THEN pc' = "options" /\ cur' = cur + 1
                  ELSE pc' = "finished"
         ]_vars

\* C6 witness: a delete failed, a later skill was still offered and deleted,
\* and the final report counts the failed one among the kept.
C6_Witness ==
    /\ pc = "finished"
    /\ \E i, j \in 1..Len(rmtree_calls) :
         i < j /\ ~rmtree_calls[i].ok /\ rmtree_calls[j].ok
    /\ final_report.kept = Len(risky_skills) - 1
    /\ Len(final_report.deleted) = 1

\* position of the first result of a skill in scanner.results
PosInResults(name) ==
    CHOOSE i \in 1..Len(results) :
        /\ results[i].skill_name = name
        /\ \A j \in 1..(i - 1) : results[j].skill_name # name

Classified == pc \in { "options", "confirm", "quit", "finished" }

\* C7: the list run() walks holds exactly the risky skills, each with the
\* maximum severity among its findings; a more severe skill never comes after a
\* less severe one; skills of equal severity are in the order of
\* scanner.results; and run() walks the list front to back, one skill at a time.
C7_PresentedBySeverity ==
    /\ [](Classified =>
            /\ { risky_skills[i].name : i \in 1..Len(risky_skills) } =
                 { results[i].skill_name : i \in { k \in 1..Len(results) :
                       ~results[k].is_safe /\ results[k].skill_name # RESERVED } }
            /\ \A i \in 1..Len(risky_skills) :
                 risky_skills[i].level =
                     MaxSeverity(results[PosInResults(risky_skills[i].name)].findings)
            /\ \A i, j \in 1..Len(risky_skills) :
                 i < j =>
                   /\ risk_priority(risky_skills[i].level)
                        >= risk_priority(risky_skills[j].level)
                   /\ risky_skills[i].level = risky_skills[j].level =>
                        PosInResults(risky_skills[i].name)
                          < PosInResults(risky_skills[j].name)
            /\ cur \in 1..Len(risky_skills))
    /\ [][ (Classified /\ cur' # cur) => cur' = cur + 1 ]_vars

\* C7 witness: three risky skills scanned in the order a, b, c are presented
\* as c (critical), then a and b (both medium, in scan order), and the walk has
\* reached the last of them.
C7_Witness ==
    /\ pc = "options"
    /\ cur = 3
    /\ [i \in 1..Len(risky_skills) |-> risky_skills[i].name] = << "c", "a", "b" >>
    /\ [i \in 1..Len(risky_skills) |-> risky_skills[i].level]
         = << "critical", "medium", "medium" >>
    /\ Len(results[PosInResults("a")].findings) > 1

\* the findings of a result that carry a given file path, in order
FindingsOfFile(findings, path) == SelectSeq(findings, LAMBDA f : f.file_path = path)

NamesOf(rs) == [i \in 1..Len(rs) |-> rs[i].skill_name]

PathOf(skill_name, file) == << skill_name, file.name \o file.ext >>

\* C11: in every result of a fully scanned skill, each candidate file was
\* opened, an unreadable one contributes no finding and every readable one
\* contributes all of its own, whatever files precede it; a scan_all_skills
\* call without target queues each non-hidden directory once and no hidden
\* one, every queued skill yields one result in that order, and the call
\* returns those results.
C11_ReadFailureContained ==
    /\ [](\A i \in 1..Len(results) :
            results[i].skill_name \in enumerated =>
                LET name == results[i].skill_name
                    files == content[name]
                IN \A k \in 1..Len(files) :
                     files[k].ext \in extensions =>
                       /\ PathOf(name, files[k]) \in opened
                       /\ FindingsOfFile(results[i].findings, PathOf(name, files[k]))
                            = IF files[k].readable
                              THEN scan_file(files[k], name, scan_level)
                              ELSE << >>)
    /\ [][ /\ (calls' = calls + 1 /\ target' = NoTarget /\ rootExists) =>
               /\ { queue'[i] : i \in 1..Len(queue') } = dirs \ { ".h" }
               /\ \A i, j \in 1..Len(queue') : queue'[i] = queue'[j] => i = j
           /\ (pc = "scanning" /\ pc' = "scanning") =>
               NamesOf(call_results') \o queue' = NamesOf(call_results) \o queue
           /\ (pc = "scanning" /\ pc' # "scanning") =>
               (queue = << >> /\ ret' = call_results)
         ]_vars

\* C11 witness: a call without target has returned one result for each of a,
\* 365skill and b and none for the hidden .h; a's first candidate file could
\* not be read, its second was still scanned and gave a's findings.
C11_Witness ==
    /\ pc = "idle"
    /\ target = NoTarget
    /\ ext_ops = 0
    /\ ".h" \in dirs
    /\ content["a"] = << FUnreadable, FHigh >>
    /\ "a" \in enumerated
    /\ NamesOf(ret) = << "a", RESERVED, "b" >>
    /\ ret[1].total_files = 2
    /\ Len(ret[1].findings) > 0
    /\ \A k \in 1..Len(ret[1].findings) :
         ret[1].findings[k].file_path = PathOf("a", FHigh)

\* every finding held in scanner.results
AllFindings ==
    UNION { { results[i].findings[k] : k \in 1..Len(results[i].findings) } :
            i \in 1..Len(results) }

\* the candidate files of a skill that a path, given as the components below
\* the skill's directory, names
FilesAt(skill_name, below) ==
    { content[skill_name][k] : k \in { j \in 1..Len(content[skill_name]) :
          << content[skill_name][j].name \o content[skill_name][j].ext >> = below } }

\* the finding's line number is the 1-based position of a line of that file
\* which its category's rules match
LineMatches(f, file) ==
    /\ f.line_number \in 1..Len(file.lines)
    /\ f.category \in file.lines[f.line_number]

KeysOf(patterns) == { patterns[i] : i \in 1..Len(patterns) }

RulesIn(list) == { list[i] : i \in 1..Len(list) }

\* every category of d is a category of e, with each of its rules among e's
CatalogWithin(d, e) ==
    /\ DOMAIN d \subseteq DOMAIN e
    /\ \A c \in DOMAIN d : RulesIn(d[c]) \subseteq RulesIn(e[c])

\* the risk mapping of the rule categories, by category alone
CategoryLevel(category) ==
    CASE category \in { "dangerous_commands", "shell_injection", "persistence_hooks" }
           -> "critical"
      [] category \in { "sensitive_api_keys", "data_exfiltration", "code_obfuscation" }
           -> "high"
      [] category \in { "suspicious_file_ops", "suspicious_network", "behavior_analysis" }
           -> "medium"
      [] OTHER -> "low"

\* C13: the BASIC catalog has exactly its three categories, DEEP has those
\* plus four, FULL has DEEP's plus three, each catalog's categories and rule
\* lists lying within the next one's; the categories scan_file iterates at a
\* depth are that catalog's; every finding of a scan at any depth has a
\* category of the active catalog and carries the level and the recommendation
\* fixed for that category; a category outside the three mapped sets gets LOW
\* and the default recommendation.
C13_CatalogsNested ==
    /\ DOMAIN basic_rules =
         { "sensitive_api_keys", "dangerous_commands", "suspicious_network" }
    /\ DOMAIN deep_rules \ DOMAIN basic_rules =
         { "code_obfuscation", "suspicious_file_ops", "data_exfiltration",
           "shell_injection" }
    /\ DOMAIN full_rules \ DOMAIN deep_rules =
         { "behavior_analysis", "environment_fingerprinting", "persistence_hooks" }
    /\ CatalogWithin(basic_rules, deep_rules)
    /\ CatalogWithin(deep_rules, full_rules)
    /\ \A level \in ScanLevels : KeysOf(PatternsFor(level)) = DOMAIN RulesFor(level)
    /\ \A f \in AllFindings :
         /\ f.category \in DOMAIN RulesFor(scan_level)
         /\ f.risk_level = CategoryLevel(f.category)
         /\ f.recommendation = get_recommendation(f.category)
    /\ get_risk_level("environment_fingerprinting") = "low"
    /\ get_risk_level("unlisted_category") = "low"
    /\ get_recommendation("unlisted_category") = "Manual review recommended"

\* C13 witness: a scan at basic depth holds a finding of a category all three
\* catalogs share, at the level fixed for it.
C13_Witness ==
    /\ scan_level = "basic"
    /\ \E f \in AllFindings :
         f.category = "suspicious_network" /\ f.risk_level = "medium"

\* the same category at full depth, beside one of the unmapped category
C13_FullDepthCase ==
    /\ scan_level = "full"
    /\ \E f \in AllFindings :
         f.category = "suspicious_network" /\ f.risk_level = "medium"
    /\ \E f \in AllFindings :
         f.category = "environment_fingerprinting" /\ f.risk_level = "low"

\* positions of the candidate files (recognized extension) in a skill's tree
Candidates(skill_name) ==
    { k \in 1..Len(content[skill_name]) :
        content[skill_name][k].ext \in
          { ".py", ".js", ".ts", ".sh", ".bash", ".md", ".json", ".yml", ".yaml",
            ".txt" } }

\* positions of the candidate files that a finding's path names
FileIndex(skill_name, f) ==
    { k \in Candidates(skill_name) :
        PathOf(skill_name, content[skill_name][k]) = f.file_path }

PathsIn(findings) == { findings[p].file_path : p \in 1..Len(findings) }

\* C14: in every result of a fully scanned skill each finding belongs to one
\* candidate file; findings follow the enumeration order of their files, so
\* those of one file are contiguous, and within a file the line numbers never
\* decrease; total_files counts the candidates and scanned_files the
\* candidates with a finding, hence scanned_files <= total_files; without a
\* candidate both are 0 and the result is safe.  Results of skills that were
\* not scanned have no findings and both counts 0.
C14_FindingsInFileOrder ==
    \A i \in 1..Len(results) :
      LET r == results[i]
          name == r.skill_name
          fs == r.findings
      IN /\ r.scanned_files <= r.total_files
         /\ name \notin enumerated =>
              (fs = << >> /\ r.total_files = 0 /\ r.scanned_files = 0)
         /\ name \in enumerated =>
              /\ \A p \in 1..Len(fs) : Cardinality(FileIndex(name, fs[p])) = 1
              /\ \A p, q \in 1..Len(fs) :
                   p < q =>
                     /\ \A kp \in FileIndex(name, fs[p]), kq \in FileIndex(name, fs[q]) :
                          kp <= kq
                     /\ fs[p].file_path = fs[q].file_path =>
                          /\ fs[p].line_number <= fs[q].line_number
                          /\ \A m \in p..q : fs[m].file_path = fs[p].file_path
              /\ r.total_files = Cardinality(Candidates(name))
              /\ r.scanned_files = Cardinality(PathsIn(fs))
              /\ Candidates(name) = {} =>
                   (r.total_files = 0 /\ r.scanned_files = 0 /\ r.is_safe)

\* C14 witness: a scanned skill with two candidate files, each with findings:
\* the first file's findings come first, and both files are counted.
C14_Witness ==
    \E i \in 1..Len(results) :
      LET r == results[i]
      IN /\ r.skill_name \in enumerated
         /\ r.total_files = 2
         /\ r.scanned_files = 2
         /\ Len(r.findings) >= 3
         /\ Head(r.findings).file_path = PathOf(r.skill_name, content[r.skill_name][1])
         /\ r.findings[Len(r.findings)].file_path
              = PathOf(r.skill_name, content[r.skill_name][2])

\* a scanned skill whose only file has no recognized extension
C14_NoCandidateCase ==
    \E i \in 1..Len(results) :
      /\ results[i].skill_name \in enumerated
      /\ content[results[i].skill_name] = << FBinary >>
      /\ results[i].total_files = 0
      /\ results[i].scanned_files = 0
      /\ results[i].is_safe

\* a scanned skill with more candidates than candidates with findings
C14_CleanFileCase ==
    \E i \in 1..Len(results) :
      /\ results[i].skill_name \in enumerated
      /\ results[i].scanned_files = 1
      /\ results[i].total_files = 2

\* the skills a call without target scans: the non-hidden directories
RootSkills == { d \in dirs : d \notin { ".h" } }

ResultsFor(rs, name) == Len(SelectSeq(rs, LAMBDA r : r.skill_name = name))

TimesIn(names, name) == Len(SelectSeq(names, LAMBDA n : n = name))

IsPrefix(s, t) == Len(s) <= Len(t) /\ SubSeq(t, 1, Len(s)) = s

\* every call so far was made without target, has returned, and no external
\* command has touched the root in between
OnlyFullCalls ==
    /\ pc \in { "idle", "printed" }
    /\ rootExists
    /\ ext_ops = 0
    /\ full_calls = calls

\* the accumulated results and the report after k = calls such calls, and the
\* last call's return value
KResultsPerSkill ==
    /\ \A name \in Names :
         ResultsFor(results, name) = IF name \in RootSkills THEN calls ELSE 0
    /\ calls > 0 =>
         /\ Len(ret) = Cardinality(RootSkills)
         /\ \A name \in RootSkills : ResultsFor(ret, name) = 1
    /\ groups.printed =>
         /\ groups.total_skills = calls * Cardinality(RootSkills)
         /\ groups.safe + groups.risky = groups.total_skills
         /\ groups.total_risks = calls * SumFindings(ret, 1)
         /\ groups.skipped = skipped_whitelist

\* C15 as claimed: after k calls of scan_all_skills without target over an
\* unchanged root, results holds k results per skill, the skipped list holds
\* each allow-listed skill of the root k times, the printed report counts
\* every skill and finding k times, and the last return value holds one
\* result per skill.
C15_AsClaimed ==
    OnlyFullCalls =>
      /\ KResultsPerSkill
      /\ \A name \in whitelist \cap RootSkills :
           TimesIn(skipped_whitelist, name) = calls

\* C15: results and skipped_whitelist only ever grow at their end; after k
\* calls of scan_all_skills without target over an unchanged root, results
\* holds k results per skill, the skipped list holds k times each
\* allow-listed skill of the root other than 365skill and no other name, the
\* printed report counts every skill and finding k times, and the last
\* return value holds one result per skill.
C15_NeverReset ==
    /\ [](OnlyFullCalls =>
            /\ KResultsPerSkill
            /\ \A name \in Names \cup whitelist :
                 TimesIn(skipped_whitelist, name) =
                   IF name \in (whitelist \cap RootSkills) \ { RESERVED }
                   THEN calls ELSE 0)
    /\ [][ /\ IsPrefix(results, results')
           /\ IsPrefix(skipped_whitelist, skipped_whitelist') ]_vars

\* C15 witness: two calls without target were made over a root holding a,
\* 365skill and b with a allow-listed; results holds each skill twice, a was
\* skipped twice, and the report printed afterwards counts six skills.
C15_Witness ==
    /\ OnlyFullCalls
    /\ calls = 2
    /\ RootSkills = { "a", RESERVED, "b" }
    /\ "a" \in whitelist
    /\ TimesIn(skipped_whitelist, "a") = 2
    /\ ResultsFor(results, "b") = 2
    /\ Len(ret) = 3
    /\ groups.printed
    /\ groups.total_skills = 6
    /\ groups.total_risks = 2 * SumFindings(ret, 1)
    /\ groups.total_risks > 0

\* the skill has a scan result with at least one finding
HasFindings(name) ==
    \E i \in 1..Len(results) :
        results[i].skill_name = name /\ Len(results[i].findings) > 0

\* a skill the workflow may offer: risky, not allow-listed, not the scanner's own
Deletable(name) ==
    /\ HasFindings(name)
    /\ name # RESERVED
    /\ name \notin whitelist

\* position of a skill in the list run() walks (0 when it is not in it)
PosInRisky(name) ==
    IF \E i \in 1..Len(risky_skills) : risky_skills[i].name = name
    THEN CHOOSE i \in 1..Len(risky_skills) : risky_skills[i].name = name
    ELSE 0

\* C16: the list run() walks names each skill at most once and only skills
\* with a finding that are neither allow-listed nor 365skill, so every skill
\* prompted for is such a skill; every rmtree is on such a skill, at most one
\* per skill, in list order, and a directory only disappears for the skill
\* at hand; the walk never goes back, and the step that ends a skill's turn
\* (delete, failed delete, declined, skipped) moves to the next skill or to
\* the final report; once run() has quit or finished, no further step is
\* taken: nothing is prompted or deleted any more.
C16_OnlyRiskyDeleted ==
    /\ [](Classified =>
            /\ \A i \in 1..Len(risky_skills) : Deletable(risky_skills[i].name)
            /\ \A i, j \in 1..Len(risky_skills) :
                 risky_skills[i].name = risky_skills[j].name => i = j
            /\ last_input.prompt # "none" => Deletable(last_input.skill))
    /\ [](/\ \A i \in 1..Len(rmtree_calls) :
               /\ Deletable(rmtree_calls[i].name)
               /\ PosInRisky(rmtree_calls[i].name) \in 1..cur
          /\ \A i, j \in 1..Len(rmtree_calls) :
               i < j => PosInRisky(rmtree_calls[i].name)
                          < PosInRisky(rmtree_calls[j].name))
    /\ [][ /\ dirs' # dirs =>
               (dirs' = dirs \ { CurName } /\ Deletable(CurName))
           /\ (Classified /\ Classified') => cur' \in { cur, cur + 1 }
           /\ (pc \in { "options", "confirm" } /\ pc' = "options" /\ cur' = cur) =>
               (rmtree_calls' = rmtree_calls /\ dirs' = dirs)
           /\ rmtree_calls' # rmtree_calls =>
               (pc' = "finished" \/ (pc' = "options" /\ cur' = cur + 1))
           /\ pc \notin { "quit", "finished", "all_safe", "raised" }
         ]_vars

\* C16 witness: with b allow-listed, the risky skill first in the list was
\* deleted and the user quit at the second; the second, b and 365skill are
\* still there and b was never in the list.
C16_Witness ==
    /\ pc = "quit"
    /\ "b" \in whitelist
    /\ Len(risky_skills) = 2
    /\ cur = 2
    /\ Len(rmtree_calls) = 1
    /\ rmtree_calls[1] = [name |-> risky_skills[1].name, ok |-> TRUE]
    /\ risky_skills[1].name \notin dirs
    /\ { risky_skills[2].name, "b", RESERVED } \subseteq dirs
    /\ PosInRisky("b") = 0

\* a safe skill is passed over: a has no finding, b and c are walked
C16_SafeSkillCase ==
    /\ pc = "finished"
    /\ ~HasFindings("a")
    /\ "a" \in dirs
    /\ Len(risky_skills) = 2
    /\ PosInRisky("a") = 0
    /\ Len(rmtree_calls) = 2

====
